---------------------------- MODULE Spec2Model ----------------------------
(***************************************************************************)
(* A model of the multi-platform housing scraper:                          *)
(*   src/multi_platform_housing_scraper.py  MultiPlatformHousingScraper    *)
(*   src/auto_verification.py               AutoVerificationHandler        *)
(* Chinese string literals of the source are written in pinyin, since the  *)
(* module text is ASCII; the comments give the source line of each.        *)
(*                                                                         *)
(* The module holds several specifications over one set of variables, one  *)
(* per part of the program:                                                *)
(*   SpecDetect   check_verification applied to a response text            *)
(*   SpecSelect   detect_house_item_selector applied to a document         *)
(*   SpecExtract  the item loop of every scraper path applied to one page  *)
(*   SpecScrape   the page loop of the four platform scrapers              *)
(*   SpecVerify   scraper.handle_verification and the automated handler    *)
(***************************************************************************)
EXTENDS Integers, Sequences, FiniteSets, TLC

VARIABLES
    \* ---- SpecDetect
    response_text,      \* the text handed to check_verification
    verdict,            \* "pending", or the value check_verification returned
    \* ---- SpecSelect
    sel_site,           \* argument site of detect_house_item_selector
    sel_house_type,     \* argument house_type of detect_house_item_selector
    soup,               \* the parsed document: selector -> number of matches
    sel_result,         \* "pending", or the selector returned
    house_items_n,      \* -1, or len(soup.select(item_selector))
    sel_prev,           \* "pending", or what the call before the last returned
    items_prev,         \* -1, or the number of nodes its selector matched
    \* ---- the scrape request (SpecExtract, SpecScrape)
    platform,           \* which scraper runs: "anjuke", "58", "beike", "lianjia"
    house_type,         \* argument house_type
    bedroom_num,        \* argument bedroom_num; 0 for None (both are falsy)
    livingroom_num,     \* argument livingroom_num; 0 for None
    build_year,         \* argument build_year; 0 for None
    house_data,         \* self.house_data, the list of records
    \* ---- SpecExtract
    ext_item,           \* the listing node the item loop is at
    ext_done,           \* whether the loop body has run for ext_item
    \* ---- SpecScrape
    page_count,         \* argument page_count
    page,               \* the loop variable of "for page in range(1, page_count + 1)"
    retry_count,        \* scrape_anjuke's retry_count (stays 0 elsewhere)
    verification_handled,   \* the local flag of every scraper
    total_items,        \* the local counter of every scraper
    pc,                 \* where the scraper is
    attempts,           \* history: requests.get calls made for the current page
    all_failed,         \* history: every one of them raised a network error
    last_failed,        \* history: the latest of them raised a network error
    skipped,            \* history: handle_verification returned False on this page
    delayed,            \* history: the sleep between pages ran as the page was left
    challenge,          \* history: "reported" once the detector has reported
                        \* a challenge on this page, "handled" once
                        \* handle_verification was called on it, else "none"
    prompted,             \* history: the call of handle_verification on this
                        \* page prompted for the operator's input
    backoff,            \* history: the multiplier of the wait that preceded
                        \* this attempt at the page, 0 when there was none
    cookie,             \* "None", or the platform whose session cookies are
                        \* the Cookie entry of self.headers
    scenario,           \* history: so far every page but the second answered
                        \* with a listing page at once, and the second with a
                        \* challenge that handle_verification resolved
    accepted,           \* history: the items of the listing pages served that
                        \* the item loop accepts (0 once scenario is lost)
    \* ---- SpecVerify
    has_handler,        \* self.auto_verification_handler is not None
    hv_pc,              \* where scraper.handle_verification is
    attempt,            \* its loop variable, "for attempt in range(max_attempts)"
    hv_result,          \* the value it returns
    auto_calls,         \* history: calls of the handler's handle_verification
    url,                \* the argument url of handle_verification, a
                        \* sequence of characters
    auto_platform,      \* the handler's local "platform", inferred from the url
    auto_pc,            \* where AutoVerificationHandler.handle_verification is
    retries,            \* its local "retries"
    success,            \* its local "success"
    raised,             \* history: exceptions raised in its try block, this call
    driver,             \* self.driver is not None
    browser_page,       \* what the page in the handler's browser is
    verification_success,   \* the value the handler returns
    \* ---- SpecRun
    run_pc,             \* where the GUI's scraping thread is
    jobs,               \* the platforms its loop has still to take
    gui_house_type,     \* the listing type chosen in the window
    stop_event,         \* self.stop_event.is_set()
    hv_override,        \* scraper.handle_verification is skip_verification_handler
    retry               \* the loop variable of the 58 loop, "for retry in range(2)"

detVars == <<response_text, verdict>>
selVars == <<sel_site, sel_house_type, soup, sel_result, house_items_n,
             sel_prev, items_prev>>
reqVars == <<platform, house_type, bedroom_num, livingroom_num, build_year,
             house_data>>
extVars == <<ext_item, ext_done>>
scrVars == <<page_count, page, retry_count, verification_handled, total_items,
             pc, attempts, all_failed, last_failed, skipped, delayed,
             challenge, prompted, backoff, cookie, scenario, accepted>>
verVars == <<has_handler, url, hv_pc, attempt, hv_result, auto_calls, auto_platform,
             auto_pc, retries, success, raised, driver, browser_page,
             verification_success>>
guiVars == <<run_pc, jobs, gui_house_type, stop_event, hv_override, retry>>
vars == <<detVars, selVars, reqVars, extVars, scrVars, verVars, guiVars>>

None == "None"
Pending == "pending"

\* a Python bool held in a variable that may also hold Pending
PyBool(b) == IF b THEN "True" ELSE "False"

-----------------------------------------------------------------------------
(***************************************************************************)
(* check_verification (multi_platform_housing_scraper.py:134-205).         *)
(*                                                                         *)
(* A response text is modelled by the strings of interest that occur in it *)
(* (toks), the normal-page markers that occur in it (markers) and its      *)
(* length (len).  "s in response_text" is Occurs(s, text): s is one of the *)
(* strings written into the text, or a substring of one.                   *)
(***************************************************************************)

\* :144-149.  yanzhengma, renjiyanzheng, anquanyanzheng, huadongyanzheng,
\* captcha, verify, verification, security check, renjishibie,
\* tuodonghuakuai, pintu, qingwanchengxialieyanzheng, qingjinxingyanzheng,
\* anquanjiancha, anquanrenzheng, qingzhengming, huadongwanchengpintu,
\* rotate, xuanzhuan, dianji, huakuai, slider
verification_keywords ==
    { "yanzhengma", "renjiyanzheng", "anquanyanzheng", "huadongyanzheng",
      "captcha", "verify", "verification", "security check", "renjishibie",
      "tuodonghuakuai", "pintu", "qingwanchengxialieyanzheng",
      "qingjinxingyanzheng", "anquanjiancha", "anquanrenzheng",
      "qingzhengming", "huadongwanchengpintu", "rotate", "xuanzhuan",
      "dianji", "huakuai", "slider" }

\* :152-159
verification_elements ==
    { "id=\"captcha\"", "class=\"captcha\"", "id=\"verify\"", "class=\"verify\"",
      "nc_scale", "nc-lang-cnt", "class=\"slider\"", "id=\"slider\"",
      "class=\"verification\"", "id=\"verification\"", "class=\"validate\"",
      "geetest", "class=\"gt_slider\"", "class=\"JDJRV-slide\"", "yidun_slider",
      "class=\"shumei_captcha\"", "class=\"vaptcha\"", "wangyiyidun",
      "tencent_captcha", "name=\"captcha\"", "class=\"puzzle\"",
      "class=\"antirobot\"", "callback.58.com/antibot" }

\* :162-169
verification_urls ==
    { "callback.58.com/antibot", "verify.anjuke.com", "captcha", "verify",
      "security-check", "validate.58.com" }

\* :194-197.  fangyuan, chuzu, chushou, jiage, pingmi, huxing, xiaoqu,
\* fangwu, zhongjie, lianxi, dizhi, louceng, ershoufang, zufang
normal_content_markers ==
    << "fangyuan", "chuzu", "chushou", "jiage", "pingmi", "huxing", "xiaoqu",
       "fangwu", "zhongjie", "lianxi", "dizhi", "louceng", "ershoufang",
       "zufang" >>

\* :190, the two domains the short-content test looks for
platform_domains == { "58.com", "anjuke.com" }

\* :190, len(response_text) < 2000
short_threshold == 2000

\* The substring relation of the source's literals: <<a, b>> when a occurs
\* inside b (computed from the literals of :144-169 and :190).
SubstringPairs ==
    { <<"captcha", "id=\"captcha\"">>, <<"captcha", "class=\"captcha\"">>,
      <<"captcha", "class=\"shumei_captcha\"">>, <<"captcha", "tencent_captcha">>,
      <<"captcha", "name=\"captcha\"">>,
      <<"verify", "id=\"verify\"">>, <<"verify", "class=\"verify\"">>,
      <<"verify", "verify.anjuke.com">>,
      <<"verification", "class=\"verification\"">>,
      <<"verification", "id=\"verification\"">>,
      <<"pintu", "huadongwanchengpintu">>, <<"huakuai", "tuodonghuakuai">>,
      <<"slider", "class=\"slider\"">>, <<"slider", "id=\"slider\"">>,
      <<"slider", "class=\"gt_slider\"">>, <<"slider", "yidun_slider">>,
      <<"58.com", "callback.58.com/antibot">>, <<"58.com", "validate.58.com">>,
      <<"anjuke.com", "verify.anjuke.com">> }

\* s in response_text
Occurs(s, text) ==
    \/ s \in text.toks
    \/ s \in text.markers
    \/ \E t \in text.toks : <<s, t>> \in SubstringPairs

MarkerSet == { normal_content_markers[i] : i \in 1..Len(normal_content_markers) }

\* :200, the markers that do not occur in the text
missing_markers(text) == { m \in MarkerSet : ~Occurs(m, text) }

\* :190-203, the short-content heuristic
ShortContentChallenge(text) ==
    /\ text.len < short_threshold
    /\ \E d \in platform_domains : Occurs(d, text)
    /\ 2 * Cardinality(missing_markers(text)) > Len(normal_content_markers)

\* :171-205
check_verification(text) ==
    \/ \E k \in verification_keywords : Occurs(k, text)
    \/ \E e \in verification_elements : Occurs(e, text)
    \/ \E u \in verification_urls : Occurs(u, text)
    \/ ShortContentChallenge(text)

\* ---- the texts of SpecDetect
MaxTokens == 2

SignalTokens ==
    verification_keywords \cup verification_elements \cup verification_urls
        \cup platform_domains

\* the subsets of S with at most n elements
RECURSIVE SubsetsUpTo(_, _)
SubsetsUpTo(S, n) ==
    IF n = 0 THEN { {} }
    ELSE LET P == SubsetsUpTo(S, n - 1)
         IN  P \cup { p \cup {x} : p \in P, x \in S }

TokenSets == SubsetsUpTo(SignalTokens, MaxTokens)

\* the first n normal-page markers, for every n
MarkerPrefixes ==
    { { normal_content_markers[i] : i \in 1..n } :
        n \in 0..Len(normal_content_markers) }

TextLens == { short_threshold - 1, short_threshold }

Texts == [ toks : TokenSets, markers : MarkerPrefixes, len : TextLens ]

DetIdle == /\ response_text = [ toks |-> {}, markers |-> {}, len |-> short_threshold ]
           /\ verdict = Pending

DetInit == /\ response_text \in Texts
           /\ verdict = Pending

CheckVerification ==
    /\ verdict = Pending
    /\ verdict' = PyBool(check_verification(response_text))
    /\ UNCHANGED response_text

-----------------------------------------------------------------------------
(***************************************************************************)
(* detect_house_item_selector (multi_platform_housing_scraper.py:266-403). *)
(*                                                                         *)
(* The parsed document is modelled by what soup.select returns for the     *)
(* selectors the call evaluates: hits maps a selector to its number of     *)
(* matches (a selector outside its domain matches nothing), and plain is   *)
(* the number of nodes matched by the last-resort selector of :403.        *)
(***************************************************************************)

\* :279
anjuke_new_house_selectors ==
    << ".item-mod", ".key-list .item",
       ".anjuke-result-box .anjuke-result-item", ".property-item",
       ".loupan-item", ".building-item", ".house-item", ".card",
       ".result-item", "[id*=\"loupan\"] .item", ".new-house-item",
       ".items-list .item", ".list-content > div", ".list > li", ".item",
       "[data-list-index]", ".list-cell", ".list-item" >>

\* :288
anjuke_used_house_selectors ==
    << ".list-item", ".houselist-item", ".house-cell", ".houseCard",
       ".house-item", ".property-item", ".sale-item", ".list-content > div",
       ".list > li", ".house-details", "[data-list-index]",
       "div[data-component=\"item\"]", ".list-cell", ".items-list .item",
       ".item" >>

\* :296
tc58_new_house_selectors ==
    << ".key-list .item", ".house-list-item", ".build-list-item",
       ".list > li", ".loupan-list > li", ".newhouse-item", ".list-cell",
       ".list-item", "[class*=\"list\"] > [class*=\"item\"]" >>

\* :303
tc58_used_house_selectors ==
    << ".house-cell", ".house-cell-list > li", ".house-item", ".ershou-item",
       ".list > li", ".house-list-item", ".list-cell", ".property-item",
       ".item" >>

\* :310
beike_new_house_selectors ==
    << ".resblock-list-wrapper > li",
       ".resblock-list-container .resblock-list", ".resblock-item",
       ".loupan-item", ".new-house-item", ".house-item", ".key-list > .item",
       ".item" >>

\* :317
beike_used_house_selectors ==
    << ".sellListContent > li", ".VIEWLIST", ".house-item", ".item-card",
       ".ershoufang-item", ".house-cell", ".key-list > .item", ".item" >>

\* :324
lianjia_new_house_selectors ==
    << ".resblock-list-container .resblock-list", ".resblock-list-module",
       ".newhouse-list .house-item", ".house-cell", ".loupan-item",
       ".key-list > .item", ".item" >>

\* :331
lianjia_used_house_selectors ==
    << ".sellListContent > li", ".main-house-list .item", ".house-item",
       ".list-item", ".ershoufang-item", ".key-list > .item", ".item" >>

\* :380
general_selectors ==
    << ".list-content > div", ".list > li", ".items-list > div",
       "[class*=\"list\"] > [class*=\"item\"]", "div[data-index]",
       "div[data-list-index]", "div[data-id]", ".content > div",
       ".content > li" >>

\* :403
catch_all_selector == "div, li, .item, .cell"

\* :370, "if max_items >= 5"
profile_threshold == 5

\* :392, "if max_items >= 3"
general_threshold == 3

XINFANG == "xinfang"
ERSHOUFANG == "ershoufang"
ZUFANG == "zufang"
HouseTypes == { XINFANG, ERSHOUFANG, ZUFANG }
Sites == { "anjuke", "58", "beike", "lianjia" }

\* :337-357
ProfileSelectors(site, ht) ==
    IF site = "anjuke"
    THEN IF ht = XINFANG THEN anjuke_new_house_selectors
                                 ELSE anjuke_used_house_selectors
    ELSE IF site = "58"
    THEN IF ht = XINFANG THEN tc58_new_house_selectors
                                 ELSE tc58_used_house_selectors
    ELSE IF site = "beike"
    THEN IF ht = XINFANG THEN beike_new_house_selectors
                                 ELSE beike_used_house_selectors
    ELSE IF site = "lianjia"
    THEN IF ht = XINFANG THEN lianjia_new_house_selectors
                                 ELSE lianjia_used_house_selectors
    ELSE << >>

\* len(soup.select(selector))
SelectCount(doc, selector) ==
    IF selector = catch_all_selector THEN doc.plain
    ELSE IF selector \in DOMAIN doc.hits THEN doc.hits[selector]
    ELSE 0

\* One "for selector in ..." loop of :363-372 and :386-394, from position i
\* with the running max_items and best_selector: ret is the selector the
\* loop returned from inside, or None when it ran to its end.
RECURSIVE ScanSelectors(_, _, _, _, _, _)
ScanSelectors(doc, selectors, i, max_items, best_selector, threshold) ==
    IF i > Len(selectors)
    THEN [ ret |-> None, max_items |-> max_items, best_selector |-> best_selector ]
    ELSE LET n == SelectCount(doc, selectors[i])
         IN  IF n > max_items
             THEN IF n >= threshold
                  THEN [ ret |-> selectors[i], max_items |-> n,
                         best_selector |-> selectors[i] ]
                  ELSE ScanSelectors(doc, selectors, i + 1, n, selectors[i],
                                     threshold)
             ELSE ScanSelectors(doc, selectors, i + 1, max_items,
                                best_selector, threshold)

\* The loop of :363-372 with "len(items) >= max_items" for its comparison:
\* among equal counts the last candidate wins, and a candidate without a
\* match can become best_selector.
RECURSIVE ScanSelectorsLastWins(_, _, _, _, _, _)
ScanSelectorsLastWins(doc, selectors, i, max_items, best_selector, threshold) ==
    IF i > Len(selectors)
    THEN [ ret |-> None, max_items |-> max_items, best_selector |-> best_selector ]
    ELSE LET n == SelectCount(doc, selectors[i])
         IN  IF n >= max_items
             THEN IF n >= threshold
                  THEN [ ret |-> selectors[i], max_items |-> n,
                         best_selector |-> selectors[i] ]
                  ELSE ScanSelectorsLastWins(doc, selectors, i + 1, n,
                                             selectors[i], threshold)
             ELSE ScanSelectorsLastWins(doc, selectors, i + 1, max_items,
                                        best_selector, threshold)

detect_house_item_selector_last_wins(doc, site, ht) ==
    LET p == ScanSelectorsLastWins(doc, ProfileSelectors(site, ht), 1,
                                   0, None, profile_threshold)
    IN  IF p.ret # None THEN p.ret
        ELSE IF p.best_selector # None /\ p.max_items > 0 THEN p.best_selector
        ELSE catch_all_selector

\* :359-403
detect_house_item_selector(doc, site, ht) ==
    LET p == ScanSelectors(doc, ProfileSelectors(site, ht), 1, 0, None,
                           profile_threshold)
    IN  IF p.ret # None THEN p.ret
        ELSE IF p.best_selector # None /\ p.max_items > 0 THEN p.best_selector
        ELSE LET g == ScanSelectors(doc, general_selectors, 1, p.max_items,
                                    p.best_selector, general_threshold)
             IN  IF g.ret # None THEN g.ret
                 ELSE IF g.best_selector # None /\ g.max_items > 0
                      THEN g.best_selector
                 ELSE catch_all_selector

\* ---- the documents of SpecSelect
MaxHits == 2
MaxPlain == 2

SeqRange(s) == { s[i] : i \in 1..Len(s) }

\* the match counts a selector is given: below, at and above each threshold
CountVals == (1..general_threshold) \cup { profile_threshold, profile_threshold + 1 }

\* soup is a document in which the selectors of S, at most MaxHits of them,
\* match
DocOver(S) ==
    \E H \in SubsetsUpTo(S, MaxHits) \ { {} } :
        \E h \in [ H -> CountVals ] : soup = [ hits |-> h, plain |-> 0 ]

\* A document is drawn by what the call reads of it: matches of profile
\* candidates; or none of those and matches of the generic candidates; or
\* none of either and some nodes that only the last-resort selector matches.
DocFor(site, ht) ==
    LET P == SeqRange(ProfileSelectors(site, ht))
        G == SeqRange(general_selectors) \ P
    IN  \/ DocOver(P)
        \/ DocOver(G)
        \/ \E n \in 0..MaxPlain : soup = [ hits |-> << >>, plain |-> n ]

SelIdle == /\ sel_site = None
           /\ sel_house_type = None
           /\ soup = [ hits |-> << >>, plain |-> 0 ]
           /\ sel_result = Pending
           /\ house_items_n = -1
           /\ sel_prev = Pending
           /\ items_prev = -1

SelInit == /\ sel_site \in Sites
           /\ sel_house_type \in HouseTypes
           /\ DocFor(sel_site, sel_house_type)
           /\ sel_result = Pending
           /\ house_items_n = -1
           /\ sel_prev = Pending
           /\ items_prev = -1

\* a call that goes on from the count of the call before, as it would with
\* max_items kept between the calls
DetectSelectorKeepsMax ==
    /\ sel_prev = Pending
    /\ sel_result' =
          IF sel_result = Pending
          THEN detect_house_item_selector(soup, sel_site, sel_house_type)
          ELSE LET p == ScanSelectors(soup,
                                      ProfileSelectors(sel_site, sel_house_type),
                                      1, house_items_n, None, profile_threshold)
               IN  IF p.ret # None THEN p.ret
                   ELSE IF p.best_selector # None THEN p.best_selector
                   ELSE catch_all_selector
    /\ house_items_n' = SelectCount(soup, sel_result')
    /\ sel_prev' = sel_result
    /\ items_prev' = house_items_n
    /\ UNCHANGED <<sel_site, sel_house_type, soup>>

\* :493-495, item_selector = self.detect_house_item_selector(...) and
\* house_items = soup.select(item_selector); the call is made once, and once
\* more on the same document
DetectSelector ==
    /\ sel_prev = Pending
    /\ sel_result' = detect_house_item_selector(soup, sel_site, sel_house_type)
    /\ house_items_n' = SelectCount(soup, sel_result')
    /\ sel_prev' = sel_result
    /\ items_prev' = house_items_n
    /\ UNCHANGED <<sel_site, sel_house_type, soup>>

-----------------------------------------------------------------------------
(***************************************************************************)
(* The item loops of the scrapers: scrape_anjuke :505-677, scrape_58       *)
(* :771-838, :856-951, :966-1032, scrape_beike :1108-1173, :1181-1251,     *)
(* :1259-1325 and scrape_lianjia :1402-1467, :1475-1545, :1553-1619 (the   *)
(* same text as scrape_beike).                                             *)
(*                                                                         *)
(* A listing node is modelled by what the loops read of it:                *)
(*   layout  <<rooms, livingrooms>> of the first "N shi M ting" in the     *)
(*           node's text, << >> when there is none                         *)
(*   where   "tag" when that layout stands in the sub-element the path     *)
(*           reads layouts from (.tag-panel span, .houseInfo,              *)
(*           .resblock-room span, .list-cell-attribute li), "text" when it *)
(*           stands only elsewhere in the node's text                      *)
(*   price   None when no price sub-selector matches, "num" for a price    *)
(*           element with digits, "words" for one without                  *)
(*   year    the build year the path can read, 0 when there is none        *)
(*   raises  whether reading some field of the node raises an exception    *)
(* A record keeps the fields the properties speak of.  The loop body gives *)
(* << >> when it appends nothing, else the one record it appends.          *)
(***************************************************************************)

UNKNOWN == "unknown"    \* the marker "weizhi" of the source

Record(pf, ht, price, layout, year) ==
    [ platform |-> pf, house_type |-> ht, price |-> price, layout |-> layout,
      year |-> year ]

\* :602 and its copies, "(bedroom_num and rooms != bedroom_num) or
\* (livingroom_num and livingrooms != livingroom_num)"
LayoutRejects(layout, b, l) ==
    \/ b # 0 /\ layout[1] # b
    \/ l # 0 /\ layout[2] # l

\* :651-655 and its copies, "if build_year and year != unknown:
\* if int(year) != int(build_year): continue"
YearRejects(year, y) == y # 0 /\ year # 0 /\ year # y

\* the layout in the sub-element the path reads layouts from
TagLayout(item) == IF item.where = "tag" THEN item.layout ELSE << >>

\* :527-544, the text of the first matching price element, else the marker
PriceOrUnknown(item) == IF item.price = None THEN UNKNOWN ELSE item.price

\* :505-677
extract_anjuke(item, ht, b, l, y) ==
    IF item.raises THEN << >>                              \* :676
    ELSE IF (b # 0 \/ l # 0) /\ item.layout = << >> THEN << >>     \* :605-608
    ELSE IF (b # 0 \/ l # 0) /\ LayoutRejects(item.layout, b, l)
         THEN << >>                                        \* :602-603
    ELSE IF YearRejects(item.year, y) THEN << >>           \* :651-655
    ELSE << Record("anjuke", ht, PriceOrUnknown(item), item.layout, item.year) >>

\* :771-838, scrape_58, xinfang
extract_58_new(item, ht, b, l, y) ==
    IF item.raises THEN << >>                              \* :837
    ELSE IF YearRejects(item.year, y) THEN << >>           \* :799-801
    ELSE IF (b # 0 \/ l # 0) /\ TagLayout(item) # << >>
            /\ LayoutRejects(TagLayout(item), b, l)
         THEN << >>                                        \* :804-809
    ELSE << Record("58", ht, PriceOrUnknown(item), TagLayout(item), item.year) >>

\* :856-951, scrape_58, ershoufang.  The record of :933-944 reads the local
\* variable year, which this branch never assigns: the read raises
\* UnboundLocalError, the except of :950 takes it, nothing is appended.
extract_58_used(item, ht, b, l, y) ==
    IF item.raises THEN << >>                              \* :950
    ELSE IF TagLayout(item) = << >> /\ item.layout # << >>
            /\ LayoutRejects(item.layout, b, l)
         THEN << >>                                        \* :918-924
    ELSE << >>                                             \* :940, :950

\* :966-1032, scrape_58, zufang
extract_58_rent(item, ht, b, l, y) ==
    IF item.raises THEN << >>                              \* :1031
    ELSE IF YearRejects(item.year, y) THEN << >>           \* :993-995
    ELSE IF (b # 0 \/ l # 0) /\ TagLayout(item) # << >>
            /\ LayoutRejects(TagLayout(item), b, l)
         THEN << >>                                        \* :998-1003
    ELSE << Record("58", ht, PriceOrUnknown(item), TagLayout(item), item.year) >>

\* :1138-1148, the loop over .resblock-room span: its "continue" goes to
\* the next span, so a span that differs from the filter is passed over and
\* the node is kept; a span that agrees becomes house_type_text.
ResblockLayout(item, b, l) ==
    IF (b # 0 \/ l # 0) /\ TagLayout(item) # << >>
       /\ ~LayoutRejects(TagLayout(item), b, l)
    THEN TagLayout(item)
    ELSE << >>

\* :1108-1173, scrape_beike, xinfang (pf is the platform written into the
\* record: scrape_lianjia :1402-1467 is the same text)
extract_beike_new(pf, item, ht, b, l, y) ==
    IF item.raises THEN << >>                              \* :1172
    ELSE IF YearRejects(item.year, y) THEN << >>           \* :1134-1136
    ELSE << Record(pf, ht, PriceOrUnknown(item), ResblockLayout(item, b, l),
                   item.year) >>

\* :1187-1189, total price and unit price concatenated, "" when there is
\* neither element
PriceBeikeUsed(item) == IF item.price = None THEN "" ELSE item.price

\* :1181-1251, scrape_beike, ershoufang
extract_beike_used(pf, item, ht, b, l, y) ==
    IF item.raises THEN << >>                              \* :1250
    ELSE IF YearRejects(item.year, y) THEN << >>           \* :1210-1216
    ELSE IF (b # 0 \/ l # 0) /\ TagLayout(item) # << >>
            /\ LayoutRejects(TagLayout(item), b, l)
         THEN << >>                                        \* :1219-1224
    ELSE << Record(pf, ht, PriceBeikeUsed(item), TagLayout(item), item.year) >>

\* :1259-1325, scrape_beike, zufang: layout and year come from item.text
extract_beike_rent(pf, item, ht, b, l, y) ==
    IF item.raises THEN << >>                              \* :1324
    ELSE IF YearRejects(item.year, y) THEN << >>           \* :1284-1290
    ELSE IF (b # 0 \/ l # 0) /\ item.layout # << >>
            /\ LayoutRejects(item.layout, b, l)
         THEN << >>                                        \* :1293-1298
    ELSE << Record(pf, ht, PriceOrUnknown(item), item.layout, item.year) >>

\* the loop body of the path (pf, ht) on one node
ExtractItem(pf, ht, item, b, l, y) ==
    IF pf = "anjuke" THEN extract_anjuke(item, ht, b, l, y)
    ELSE IF pf = "58"
    THEN IF ht = XINFANG THEN extract_58_new(item, ht, b, l, y)             \* :758
         ELSE IF ht = ERSHOUFANG THEN extract_58_used(item, ht, b, l, y)    \* :840
         ELSE extract_58_rent(item, ht, b, l, y)                            \* :953
    ELSE IF ht = XINFANG THEN extract_beike_new(pf, item, ht, b, l, y)      \* :1102
    ELSE IF ht = ERSHOUFANG THEN extract_beike_used(pf, item, ht, b, l, y)  \* :1175
    ELSE extract_beike_rent(pf, item, ht, b, l, y)                          \* :1253

\* ---- the nodes and requests of SpecExtract
MaxRooms == 2

RoomCounts == 1..MaxRooms
Layouts == { <<r, l>> : r \in RoomCounts, l \in RoomCounts }
Years == { 2010, 2015 }
Prices == { None, "num", "words" }

Items ==
    [ layout : Layouts, where : { "tag", "text" }, price : Prices,
      year : Years \cup {0}, raises : BOOLEAN ]
    \cup [ layout : { << >> }, where : { "text" }, price : Prices,
           year : Years \cup {0}, raises : BOOLEAN ]

NoItem == [ layout |-> << >>, where |-> "text", price |-> None, year |-> 0,
            raises |-> FALSE ]

ReqIdle == /\ platform = None
           /\ house_type = None
           /\ bedroom_num = 0
           /\ livingroom_num = 0
           /\ build_year = 0
           /\ house_data = << >>

ExtIdle == /\ ext_item = NoItem
           /\ ext_done = FALSE

ExtInit == /\ platform \in Sites
           /\ house_type \in HouseTypes
           /\ bedroom_num \in RoomCounts \cup {0}
           /\ livingroom_num \in RoomCounts \cup {0}
           /\ build_year \in Years \cup {0}
           /\ house_data = << >>
           /\ ext_item \in Items
           /\ ext_done = FALSE

\* one run of the body of "for item in house_items"
ProcessItem ==
    /\ ~ext_done
    /\ house_data' = house_data \o ExtractItem(platform, house_type, ext_item,
                                bedroom_num, livingroom_num, build_year)
    /\ ext_done' = TRUE
    /\ UNCHANGED <<platform, house_type, bedroom_num, livingroom_num,
                   build_year, ext_item>>

-----------------------------------------------------------------------------
(***************************************************************************)
(* The page loops: scrape_anjuke :439-700, scrape_58 :729-1044,            *)
(* scrape_beike :1073-1337, scrape_lianjia :1366-1631 (the same text as    *)
(* scrape_beike).                                                          *)
(*                                                                         *)
(* The scraper stops at the calls whose outcome the environment decides:   *)
(* requests.get and self.handle_verification.  An action is the code from  *)
(* one such call to the next.  pc is                                       *)
(*   "page_top"       at the head of the for loop                          *)
(*   "fetch"          before the first requests.get of an attempt          *)
(*   "hv_kw"          before handle_verification after a keyword verdict   *)
(*   "refetch_kw"     before the requests.get that follows it              *)
(*   "hv_short"       before handle_verification for a short page (:481)   *)
(*   "refetch_short"  before the requests.get that follows it (:483)       *)
(*   "page_end"       the page is left, the next iteration follows         *)
(*   "done"           the scraper has returned                             *)
(* A response is its status code, its text (as check_verification reads    *)
(* it), whether len(soup.text) < 1000, the listing nodes the path's        *)
(* selectors find, and the number of other div/li nodes.                   *)
(***************************************************************************)

\* :441
max_retries == 3

\* :448, "while retry_count < max_retries" read with <=
RetryAllowedInclusive(rc) == rc <= max_retries

\* :448, "while retry_count < max_retries"
RetryAllowed(rc) == rc < max_retries

\* ---- the requests and responses of SpecScrape
MaxPages == 3
MaxNodes == 1

\* a page that names a keyword of :144
ChallengeText ==
    [ toks |-> { "yanzhengma" }, markers |-> {}, len |-> short_threshold - 1 ]
\* a short page that names the platform and nothing else (:190-203)
BareText ==
    [ toks |-> { "anjuke.com" }, markers |-> {}, len |-> short_threshold - 1 ]
\* a listing page
ListingText == [ toks |-> {}, markers |-> MarkerSet, len |-> short_threshold ]
ScrapeTexts == { ChallengeText, BareText, ListingText }

\* the listing nodes of SpecScrape
ScrapeItems ==
    { [ layout |-> <<1, 1>>, where |-> "tag", price |-> "num", year |-> 2010,
        raises |-> FALSE ],
      [ layout |-> <<2, 1>>, where |-> "tag", price |-> "num", year |-> 2010,
        raises |-> FALSE ] }

\* a run started from the window draws its nodes from one kind
NodeKinds ==
    IF run_pc = "idle" THEN ScrapeItems
    ELSE { it \in ScrapeItems : it.layout = <<2, 1>> }

NodeLists == UNION { [ 1..n -> NodeKinds ] : n \in 0..MaxNodes }

Responses ==
    [ status : { 200, 500 }, text : ScrapeTexts, soup_short : BOOLEAN,
      nodes : NodeLists, plain : 0..1 ]

\* the document of a response, as detect_house_item_selector reads it: the
\* listing nodes match .list-item, and they and the plain nodes are div/li
DocOf(r) ==
    [ hits |-> IF Len(r.nodes) > 0
               THEN [ sel \in { ".list-item" } |-> Len(r.nodes) ] ELSE << >>,
      plain |-> r.plain + Len(r.nodes) ]

\* :493-495, house_items of scrape_anjuke; a node that only the last-resort
\* selector matches has none of the fields
AnjukeItems(r) ==
    LET item_selector == detect_house_item_selector(DocOf(r), "anjuke", house_type)
    IN  IF item_selector = catch_all_selector
        THEN [ i \in 1..DocOf(r).plain |-> NoItem ]
        ELSE r.nodes

\* "for item in house_items": the records the loop appends
RECURSIVE ExtractAll(_, _)
ExtractAll(items, i) ==
    IF i > Len(items) THEN << >>
    ELSE ExtractItem(platform, house_type, items[i], bedroom_num,
                     livingroom_num, build_year) \o ExtractAll(items, i + 1)

\* the scraper goes on at pc2 with these values of its locals and store
Goto(pc2, rc2, vh2, hd2) ==
    /\ pc' = pc2
    /\ retry_count' = rc2
    /\ verification_handled' = vh2
    /\ house_data' = hd2
    /\ total_items' = total_items + (Len(hd2) - Len(house_data))

\* scrape_anjuke, "retry_count += 1" followed by the loop test of :448
AnjukeRetry ==
    Goto(IF RetryAllowed(retry_count + 1) THEN "fetch" ELSE "page_end",
         retry_count + 1, verification_handled, house_data)

\* :682-694, a status other than 200 or an exception: the wait of :691-694
\* has the multiplier retry_count + 1, and runs if another attempt follows
AnjukeRetryBackoff ==
    /\ AnjukeRetry
    /\ backoff' = IF pc' = "fetch" THEN retry_count + 2 ELSE 0

\* :465-471 / :485-490, the challenge is still there: sleep(delay * 2), then
\* "continue", which passes over the wait of :691-694
AnjukeRetryTwice ==
    /\ AnjukeRetry
    /\ backoff' = IF pc' = "fetch" THEN 2 ELSE 0

\* :497-501, no item found: "continue" with no wait
AnjukeRetryAtOnce ==
    /\ AnjukeRetry
    /\ backoff' = 0

\* AnjukeParse with "retry_count += 1" in the place of the "break" of :680
AnjukeParseCountsAttempt(r) ==
    IF AnjukeItems(r) = << >>
    THEN AnjukeRetryAtOnce
    ELSE /\ Goto(IF RetryAllowed(retry_count + 1) THEN "fetch" ELSE "page_end",
                 retry_count + 1, verification_handled,
                 house_data \o ExtractAll(AnjukeItems(r), 1))
         /\ backoff' = 0

\* :492-680
AnjukeParse(r) ==
    IF AnjukeItems(r) = << >>
    THEN AnjukeRetryAtOnce                                   \* :497-501
    ELSE /\ Goto("page_end", retry_count, verification_handled,
                 house_data \o ExtractAll(AnjukeItems(r), 1)) \* :505-680
         /\ backoff' = 0

\* :473-684
AnjukeStatus(r) ==
    IF r.status = 200
    THEN IF r.soup_short
         THEN IF ~verification_handled
              THEN /\ Goto("hv_short", retry_count, verification_handled,
                           house_data)                       \* :480-481
                   /\ UNCHANGED backoff
              ELSE AnjukeRetryTwice                          \* :485-490
         ELSE AnjukeParse(r)
    ELSE AnjukeRetryBackoff                                  \* :682-684

Fetched(failed) ==
    /\ attempts' = attempts + 1
    /\ all_failed' = (all_failed /\ failed)
    /\ last_failed' = failed

\* what no step of a fetch attempt assigns
ReqUnchanged ==
    UNCHANGED <<platform, house_type, bedroom_num, livingroom_num, build_year,
                page_count, page, detVars, selVars, extVars, verVars,
                   guiVars>>

\* a listing page: status 200, no challenge, a full page with listing nodes
NormalListing(r) ==
    /\ r.status = 200 /\ ~check_verification(r.text)
    /\ ~r.soup_short /\ r.nodes # << >>

\* the request goes on inside the scenario if ok, and a listing page was
\* served with n items the item loop accepts
Follows(ok, n) ==
    /\ scenario' = (scenario /\ ok)
    /\ accepted' = IF scenario /\ ok THEN accepted + n ELSE 0

\* requests.get returned r
Served(r) ==
    Follows(IF page = 2 /\ attempts = 0 THEN check_verification(r.text)
            ELSE NormalListing(r),
            IF NormalListing(r) THEN Len(ExtractAll(r.nodes, 1)) ELSE 0)

\* :449-471, the requests.get of :451 raises
AnjukeFetchError ==
    /\ platform = "anjuke" /\ pc = "fetch"
    /\ Fetched(TRUE)
    /\ UNCHANGED <<challenge, prompted, cookie>>
    /\ Follows(FALSE, 0)
    /\ UNCHANGED skipped
    /\ AnjukeRetryBackoff                                    \* :686-688
    /\ delayed' = (pc' = "page_end")                      \* :696-697
    /\ ReqUnchanged

\* :449-684, the requests.get of :451 returns
AnjukeFetch ==
    /\ platform = "anjuke" /\ pc = "fetch"
    /\ Fetched(FALSE)
    /\ UNCHANGED skipped
    /\ \E r \in Responses :
          /\ Served(r)
          /\ challenge' = IF check_verification(r.text) /\ challenge = "none"
                          THEN "reported" ELSE challenge
          /\ UNCHANGED <<prompted, cookie>>
          /\ IF check_verification(r.text)
             THEN IF ~verification_handled
                  THEN /\ Goto("hv_kw", retry_count, verification_handled,
                               house_data)
                       /\ UNCHANGED backoff
                  ELSE AnjukeRetryTwice                      \* :465-471
             ELSE AnjukeStatus(r)
    /\ delayed' = (pc' = "page_end")                      \* :696-697
    /\ ReqUnchanged

\* what self.handle_verification(url) can return: the method of :207-264
\* returns True or False; the GUI's skip_verification_handler
\* (gui_scraper.py :523-538) returns False
HvOutcomes == IF hv_override THEN { FALSE } ELSE BOOLEAN

\* HvPrompts with the method of :207-264 still in place under the override
HvPromptsOriginal(ok) == IF ok THEN BOOLEAN ELSE { TRUE }

\* :218-226, the Cookie entry of self.headers after a call that returned
\* ok: the method of :207-264 writes the browser's cookies for the site of
\* url into it when the automatic handler reported success and had any,
\* else leaves it; skip_verification_handler writes nothing
HvCookies(ok) ==
    IF ok /\ ~hv_override THEN { cookie, platform } ELSE { cookie }

\* whether the call stopped at an input() on its way to returning ok: the
\* method of :207-264 returns True without one after an automatic
\* verification (:218-231) and otherwise asks at :241 before it returns;
\* skip_verification_handler (gui_scraper.py :523-538) asks nothing
HvPrompts(ok) ==
    IF hv_override THEN { FALSE } ELSE IF ok THEN BOOLEAN ELSE { TRUE }

\* :458-462, handle_verification returns ok; False leaves the retry loop
AnjukeHandleKw ==
    /\ platform = "anjuke" /\ pc = "hv_kw"
    /\ \E ok \in HvOutcomes :
          /\ Goto(IF ok THEN "refetch_kw" ELSE "page_end", retry_count, ok,
                  house_data)
          /\ skipped' = (skipped \/ ~ok)
          /\ Follows(ok, 0)
          /\ \E w \in HvPrompts(ok) : prompted' = (prompted \/ w)
          /\ \E c \in HvCookies(ok) : cookie' = c
    /\ UNCHANGED <<attempts, all_failed, last_failed, backoff>>
    /\ challenge' = "handled"
    /\ delayed' = (pc' = "page_end")                      \* :696-697
    /\ ReqUnchanged

\* :464 raises
AnjukeRefetchKwError ==
    /\ platform = "anjuke" /\ pc = "refetch_kw"
    /\ Fetched(TRUE)
    /\ UNCHANGED <<challenge, prompted, cookie>>
    /\ Follows(FALSE, 0)
    /\ UNCHANGED skipped
    /\ AnjukeRetryBackoff
    /\ delayed' = (pc' = "page_end")                      \* :696-697
    /\ ReqUnchanged

\* :464 returns, then :473-684
AnjukeRefetchKw ==
    /\ platform = "anjuke" /\ pc = "refetch_kw"
    /\ Fetched(FALSE)
    /\ UNCHANGED <<challenge, prompted, cookie>>
    /\ UNCHANGED skipped
    /\ \E r \in Responses : Served(r) /\ AnjukeStatus(r)
    /\ delayed' = (pc' = "page_end")                      \* :696-697
    /\ ReqUnchanged

\* :481, the value returned is stored and not tested
AnjukeHandleShort ==
    /\ platform = "anjuke" /\ pc = "hv_short"
    /\ \E ok \in HvOutcomes :
          /\ Goto("refetch_short", retry_count, ok, house_data)
          /\ skipped' = (skipped \/ ~ok)
          /\ Follows(ok, 0)
          /\ \E w \in HvPrompts(ok) : prompted' = (prompted \/ w)
          /\ \E c \in HvCookies(ok) : cookie' = c
    /\ UNCHANGED <<attempts, all_failed, last_failed, backoff>>
    /\ challenge' = "handled"
    /\ delayed' = (pc' = "page_end")                      \* :696-697
    /\ ReqUnchanged

\* :483 raises
AnjukeRefetchShortError ==
    /\ platform = "anjuke" /\ pc = "refetch_short"
    /\ Fetched(TRUE)
    /\ UNCHANGED <<challenge, prompted, cookie>>
    /\ Follows(FALSE, 0)
    /\ UNCHANGED skipped
    /\ AnjukeRetryBackoff
    /\ delayed' = (pc' = "page_end")                      \* :696-697
    /\ ReqUnchanged

\* :483-484 returns, then :492-680 on the new soup
AnjukeRefetchShort ==
    /\ platform = "anjuke" /\ pc = "refetch_short"
    /\ Fetched(FALSE)
    /\ UNCHANGED <<challenge, prompted, cookie>>
    /\ UNCHANGED skipped
    /\ \E r \in Responses : Served(r) /\ AnjukeParse(r)
    /\ delayed' = (pc' = "page_end")                      \* :696-697
    /\ ReqUnchanged

\* OtherStatus without the append of the item loop
OtherStatusDrops(r) ==
    /\ Goto("page_end", retry_count, verification_handled, house_data)
    /\ delayed' = (r.status # 200 \/ r.nodes # << >>)

\* scrape_58 :754-1038, scrape_beike :1098-1331: the status test, the
\* path's selectors, the item loop
OtherStatus(r) ==
    IF r.status = 200 /\ r.nodes # << >>
    THEN /\ Goto("page_end", retry_count, verification_handled,
                 house_data \o ExtractAll(r.nodes, 1))
         /\ delayed' = TRUE                                  \* :1037-1038
    ELSE /\ Goto("page_end", retry_count, verification_handled, house_data)
         /\ delayed' = (r.status # 200)      \* "continue" of :767, :852, :962

\* :738 / :1082 raises, the except of :1040 / :1333 takes it
OtherFetchError ==
    /\ platform # "anjuke" /\ pc = "fetch"
    /\ Fetched(TRUE)
    /\ UNCHANGED <<challenge, prompted, backoff, cookie>>
    /\ Follows(FALSE, 0)
    /\ UNCHANGED skipped
    /\ Goto("page_end", retry_count, verification_handled, house_data)
    /\ delayed' = FALSE
    /\ ReqUnchanged

\* :738-752 / :1082-1096 returns
OtherFetch ==
    /\ platform # "anjuke" /\ pc = "fetch"
    /\ Fetched(FALSE)
    /\ UNCHANGED skipped
    /\ \E r \in Responses :
          /\ Served(r)
          /\ challenge' = IF check_verification(r.text) /\ challenge = "none"
                          THEN "reported" ELSE challenge
          /\ UNCHANGED <<prompted, backoff, cookie>>
          /\ IF check_verification(r.text)
             THEN /\ IF ~verification_handled
                     THEN Goto("hv_kw", retry_count, verification_handled,
                               house_data)
                     ELSE Goto("page_end", retry_count, verification_handled,
                               house_data)                   \* :750-752
                  /\ delayed' = FALSE
             ELSE OtherStatus(r)
    /\ ReqUnchanged

\* :743-747 / :1087-1091, handle_verification returns ok; on False the
\* "break" leaves the for loop over the pages
OtherHandleKw ==
    /\ platform # "anjuke" /\ pc = "hv_kw"
    /\ \E ok \in HvOutcomes :
          /\ Goto(IF ok THEN "refetch_kw" ELSE "done", retry_count, ok,
                  house_data)
          /\ skipped' = (skipped \/ ~ok)
          /\ Follows(ok, 0)
          /\ \E w \in HvPrompts(ok) : prompted' = (prompted \/ w)
          /\ \E c \in HvCookies(ok) : cookie' = c
    /\ UNCHANGED <<attempts, all_failed, last_failed, delayed, backoff>>
    /\ challenge' = "handled"
    /\ ReqUnchanged

\* :749 / :1093 raises
OtherRefetchKwError ==
    /\ platform # "anjuke" /\ pc = "refetch_kw"
    /\ Fetched(TRUE)
    /\ UNCHANGED <<challenge, prompted, backoff, cookie>>
    /\ Follows(FALSE, 0)
    /\ UNCHANGED skipped
    /\ Goto("page_end", retry_count, verification_handled, house_data)
    /\ delayed' = FALSE
    /\ ReqUnchanged

\* :749 / :1093 returns
OtherRefetchKw ==
    /\ platform # "anjuke" /\ pc = "refetch_kw"
    /\ Fetched(FALSE)
    /\ UNCHANGED <<challenge, prompted, backoff, cookie>>
    /\ UNCHANGED skipped
    /\ \E r \in Responses : Served(r) /\ OtherStatus(r)
    /\ ReqUnchanged

\* :443-447 / :732-734, the next iteration of the for loop begins
StartPage ==
    /\ pc = "page_top" /\ page <= page_count
    /\ pc' = "fetch"
    /\ retry_count' = 0
    /\ attempts' = 0
    /\ all_failed' = TRUE
    /\ last_failed' = FALSE
    /\ skipped' = FALSE
    /\ delayed' = FALSE
    /\ challenge' = "none"
    /\ prompted' = FALSE
    /\ UNCHANGED cookie
    /\ backoff' = 0
    /\ UNCHANGED <<verification_handled, total_items, house_data, scenario,
                   accepted>>
    /\ ReqUnchanged

\* the iteration for this page is over
EndPage ==
    /\ pc = "page_end"
    /\ page' = page + 1
    /\ pc' = "page_top"
    /\ UNCHANGED <<platform, house_type, bedroom_num, livingroom_num,
                   build_year, house_data, page_count, retry_count,
                   verification_handled, total_items, attempts, all_failed,
                   last_failed, skipped, delayed, challenge, prompted, cookie,
                   backoff, scenario, accepted, detVars, selVars, extVars, verVars,
                   guiVars>>

\* :699-700 / :1043-1044, the for loop is exhausted
Return ==
    /\ pc = "page_top" /\ page > page_count
    /\ pc' = "done"
    /\ UNCHANGED <<platform, house_type, bedroom_num, livingroom_num,
                   build_year, house_data, page_count, page, retry_count,
                   verification_handled, total_items, attempts, all_failed,
                   last_failed, skipped, delayed, challenge, prompted, cookie,
                   backoff, scenario, accepted, detVars, selVars, extVars, verVars,
                   guiVars>>

ScrIdle == /\ page_count = 0
           /\ page = 1
           /\ retry_count = 0
           /\ verification_handled = FALSE
           /\ total_items = 0
           /\ pc = "idle"
           /\ attempts = 0
           /\ all_failed = TRUE
           /\ last_failed = FALSE
           /\ skipped = FALSE
           /\ delayed = FALSE
           /\ challenge = "none"
           /\ prompted = FALSE
           /\ cookie = None
           /\ backoff = 0
           /\ scenario = TRUE
           /\ accepted = 0

\* the scraper is called: :439-443 / :729-732
ScrInit == /\ platform \in Sites
           /\ house_type \in HouseTypes
           /\ bedroom_num = 2
           /\ livingroom_num = 0
           /\ build_year = 0
           /\ house_data = << >>
           /\ page_count \in 1..MaxPages
           /\ page = 1
           /\ retry_count = 0
           /\ verification_handled = FALSE
           /\ total_items = 0
           /\ pc = "page_top"
           /\ attempts = 0
           /\ all_failed = TRUE
           /\ last_failed = FALSE
           /\ skipped = FALSE
           /\ delayed = FALSE
           /\ challenge = "none"
           /\ prompted = FALSE
           /\ cookie = None
           /\ backoff = 0
           /\ scenario = TRUE
           /\ accepted = 0

NextScrape ==
    \/ StartPage \/ EndPage \/ Return
    \/ AnjukeFetchError \/ AnjukeFetch \/ AnjukeHandleKw
    \/ AnjukeRefetchKwError \/ AnjukeRefetchKw
    \/ AnjukeHandleShort \/ AnjukeRefetchShortError \/ AnjukeRefetchShort
    \/ OtherFetchError \/ OtherFetch \/ OtherHandleKw
    \/ OtherRefetchKwError \/ OtherRefetchKw

-----------------------------------------------------------------------------
(***************************************************************************)
(* Challenge handling: MultiPlatformHousingScraper.handle_verification     *)
(* (:207-264) and AutoVerificationHandler.handle_verification              *)
(* (auto_verification.py :102-261).                                        *)
(*                                                                         *)
(* The scraper's method is at "start" when called, at "auto" while a call  *)
(* of the handler is open, at "manual_choice" at the input() of :240, at   *)
(* "manual_wait" at the input() of :251 / :260, and "returned" after its   *)
(* return.  The handler's method is at "loop" at the head of its while     *)
(* loop, at "prompt" at the input() of :241, and "returned" after its      *)
(* return.  The browser's page is "challenge" when                         *)
(* _is_still_verification_page (:363-437) answers True on it and "content" *)
(* otherwise; what a page load, a gesture, a wait or the operator leave    *)
(* in the browser is the environment's choice.                             *)
(***************************************************************************)

\* multi_platform_housing_scraper.py :209
max_attempts == 3

\* auto_verification.py :39, the default the scraper constructs the handler
\* with (multi_platform_housing_scraper.py :120)
handler_max_retries == 1

\* "for attempt in range(max_attempts)" run once more
MoreAttemptsInclusive(a) == a <= max_attempts

\* :213, "for attempt in range(max_attempts)": there is an iteration for a
MoreAttempts(a) == a < max_attempts

Pages == { "challenge", "content" }
NoPage == "none"

\* auto_verification.py :113-123
AutoPlatforms == { "anjuke", "58", "beike", "lianjia", "general" }

\* the decimal digits str.format writes for a page number
DigitChars == << "0", "1", "2", "3", "4", "5", "6", "7", "8", "9" >>
RECURSIVE Digits(_)
Digits(n) ==
    IF n < 10 THEN << DigitChars[n + 1] >>
    ELSE Digits(n \div 10) \o << DigitChars[(n % 10) + 1] >>

\* "needle in text" of two Python strings
Contains(needle, text) ==
    \E i \in 1..(Len(text) - Len(needle) + 1) :
        SubSeq(text, i, i + Len(needle) - 1) = needle

Https == << "h", "t", "t", "p", "s", ":", "/", "/" >>

\* :53-57 and :444, the address scrape_anjuke asks for
UrlAnjuke(city, ht, n) ==
    Https \o city \o
    (IF ht = XINFANG THEN << ".", "a", "n", "j", "u", "k", "e", ".", "c", "o", "m", "/", "n", "e", "w", "/", "a", "l", "l", "/", "p" >>
     ELSE IF ht = ERSHOUFANG THEN << ".", "a", "n", "j", "u", "k", "e", ".", "c", "o", "m", "/", "s", "a", "l", "e", "/", "p" >>
     ELSE << ".", "a", "n", "j", "u", "k", "e", ".", "c", "o", "m", "/", "r", "e", "n", "t", "/", "p" >>) \o Digits(n)

\* :722-727 and :733, the address scrape_58 asks for
Url58(city, ht, n) ==
    Https \o city \o
    (IF ht = XINFANG THEN << ".", "5", "8", ".", "c", "o", "m", "/", "l", "o", "u", "p", "a", "n", "/", "a", "l", "l", "/", "p" >>
     ELSE IF ht = ERSHOUFANG THEN << ".", "5", "8", ".", "c", "o", "m", "/", "e", "r", "s", "h", "o", "u", "f", "a", "n", "g", "/", "p" >>
     ELSE << ".", "5", "8", ".", "c", "o", "m", "/", "z", "u", "f", "a", "n", "g", "/", "p" >>) \o Digits(n)

\* :1066-1071 and :1076, the address scrape_beike asks for
UrlBeike(city, ht, n) ==
    Https \o city \o
    (IF ht = XINFANG THEN << ".", "f", "a", "n", "g", ".", "k", "e", ".", "c", "o", "m", "/", "l", "o", "u", "p", "a", "n", "/", "p", "g" >>
     ELSE IF ht = ERSHOUFANG THEN << ".", "k", "e", ".", "c", "o", "m", "/", "e", "r", "s", "h", "o", "u", "f", "a", "n", "g", "/", "p", "g" >>
     ELSE << ".", "z", "u", ".", "k", "e", ".", "c", "o", "m", "/", "z", "u", "f", "a", "n", "g", "/", "p", "g" >>) \o Digits(n)

\* :1361-1366 and :1371, the address scrape_lianjia asks for
UrlLianjia(city, ht, n) ==
    Https \o city \o
    (IF ht = XINFANG THEN << ".", "f", "a", "n", "g", ".", "l", "i", "a", "n", "j", "i", "a", ".", "c", "o", "m", "/", "l", "o", "u", "p", "a", "n", "/", "p", "g" >>
     ELSE IF ht = ERSHOUFANG THEN << ".", "l", "i", "a", "n", "j", "i", "a", ".", "c", "o", "m", "/", "e", "r", "s", "h", "o", "u", "f", "a", "n", "g", "/", "p", "g" >>
     ELSE << ".", "l", "i", "a", "n", "j", "i", "a", ".", "c", "o", "m", "/", "z", "u", "f", "a", "n", "g", "/", "p", "g" >>) \o Digits(n)

\* auto_verification.py :113-123, the platform read off the url when the
\* caller names none (the scraper names none, :216)
InferPlatform(u) ==
    IF Contains(<< "a", "n", "j", "u", "k", "e" >>, u) THEN "anjuke"
    ELSE IF Contains(<< "5", "8" >>, u) \/ Contains(<< "5", "i", "5", "j" >>, u) THEN "58"
    ELSE IF Contains(<< "k", "e", ".", "c", "o", "m" >>, u) THEN "beike"
    ELSE IF Contains(<< "l", "i", "a", "n", "j", "i", "a" >>, u) THEN "lianjia"
    ELSE "general"

\* ---- the urls of SpecVerify: two codes of CITY_CODES (:39-50), the first
\* page and a later one, and an address of no platform
UrlCities == { << "b", "j" >>, << "z", "z" >> }
UrlPages == { 1, 58 }
OtherUrl == Https \o << "e", "x", "a", "m", "p", "l", "e", ".", "o", "r", "g", "/" >>

AnjukeUrls == { UrlAnjuke(c, ERSHOUFANG, n) : c \in UrlCities, n \in UrlPages }
Urls58 == { Url58(c, ZUFANG, n) : c \in UrlCities, n \in UrlPages }
BeikeUrls ==
    { UrlBeike(c, ht, n) : c \in UrlCities, ht \in HouseTypes, n \in UrlPages }
LianjiaUrls ==
    { UrlLianjia(c, ht, n) : c \in UrlCities, ht \in HouseTypes, n \in UrlPages }
HandlerUrls ==
    AnjukeUrls \cup Urls58 \cup BeikeUrls \cup LianjiaUrls \cup { OtherUrl }

\* auto_verification.py :363-437
_is_still_verification_page(p) == p = "challenge"

\* auto_verification.py :165-173, has_verification
has_verification(p) == p = "challenge"

\* what no step of challenge handling assigns
VerOthers ==
    UNCHANGED <<detVars, selVars, reqVars, extVars, scrVars, guiVars>>

\* auto_verification.py :252, "retries += 1" adding nothing
CountExceptionNot(r) == r

\* auto_verification.py :252, "retries += 1"
CountException(r) == r + 1

\* the handler is called: auto_verification.py :127-130
CallHandler ==
    /\ auto_pc' = "loop"
    /\ retries' = 0
    /\ success' = FALSE
    /\ raised' = 0
    /\ auto_calls' = auto_calls + 1
    /\ verification_success' = Pending
    /\ auto_platform' = InferPlatform(url)                   \* :113-123

\* :211-213
HvEnter ==
    /\ hv_pc = "start"
    /\ IF has_handler
       THEN /\ hv_pc' = "auto"
            /\ CallHandler
       ELSE /\ hv_pc' = "manual_choice"
            /\ UNCHANGED <<auto_pc, retries, success, raised, auto_calls,
                           verification_success, auto_platform>>
    /\ UNCHANGED <<has_handler, url, attempt, hv_result, driver, browser_page>>
    /\ VerOthers

\* auto_verification.py :250-261: the except clause, the finally clause, the
\* loop test and the return after the loop
HandlerExcept(page_now) ==
    /\ raised' = raised + 1
    /\ retries' = CountException(retries)
    /\ IF CountException(retries) >= handler_max_retries
       THEN /\ driver' = FALSE                               \* :258-259
            /\ browser_page' = NoPage
       ELSE /\ driver' = TRUE
            /\ browser_page' = page_now
    /\ IF CountException(retries) < handler_max_retries
       THEN /\ auto_pc' = "loop"
            /\ verification_success' = Pending
       ELSE /\ auto_pc' = "returned"
            /\ verification_success' = "False"               \* :261

\* what no step of the handler assigns
HvFrame ==
    /\ UNCHANGED <<has_handler, url, hv_pc, attempt, hv_result, auto_calls,
                   auto_platform>>
    /\ VerOthers

\* :132-133, webdriver.Chrome raises; start_browser re-raises (:86-88),
\* self.driver stays None
HandlerBrowserFails ==
    /\ hv_pc = "auto" /\ auto_pc = "loop" /\ ~driver
    /\ raised' = raised + 1
    /\ retries' = CountException(retries)
    /\ driver' = FALSE
    /\ browser_page' = NoPage
    /\ UNCHANGED success
    /\ IF CountException(retries) < handler_max_retries
       THEN /\ auto_pc' = "loop"
            /\ verification_success' = Pending
       ELSE /\ auto_pc' = "returned"
            /\ verification_success' = "False"
    /\ HvFrame

\* :139, driver.get raises
HandlerGetFails ==
    /\ hv_pc = "auto" /\ auto_pc = "loop"
    /\ HandlerExcept(browser_page)
    /\ UNCHANGED success
    /\ HvFrame

\* :148-153, handle_beike_verification (:494) and
\* handle_general_verification (:517) call self._identify_verification_type,
\* which the class does not define: AttributeError
HandlerPlatformRaises ==
    /\ hv_pc = "auto" /\ auto_pc = "loop"
    /\ auto_platform \in { "beike", "general" }
    /\ \E loaded \in Pages : HandlerExcept(loaded)
    /\ UNCHANGED success
    /\ HvFrame

\* the value of the platform's method after it left page p in the browser;
\* slider: the method came to its test of the page, that is,
\* handle_anjuke_verification found a slider element and dragged it (an
\* exception in its loop is caught at :357 and the next selector is tried),
\* and handle_lianjia_verification met no exception (its own except of
\* :793-795 answers False)
PlatformSuccess(pf, slider, p) ==
    IF pf = "anjuke" THEN slider /\ ~_is_still_verification_page(p)  \* :344-361
    ELSE IF pf = "58" THEN FALSE                                     \* :271-273
    ELSE slider /\ ~_is_still_verification_page(p)                   \* :786-795

\* :132-249 with platform anjuke, 58 or lianjia: the page is loaded, the
\* platform's method makes its gestures and answers.  On True: the wait of
\* :159, the marker test of :165-173, the extra gestures of :179-223 for
\* lianjia, the return of :233 (success is never reset).  On False: the
\* input() of :241.
HandlerPlatformReturns ==
    /\ hv_pc = "auto" /\ auto_pc = "loop"
    /\ auto_platform \in { "anjuke", "58", "lianjia" }
    /\ \E loaded \in Pages, slider \in BOOLEAN, gestured \in Pages,
          waited \in Pages, extra \in Pages :
          LET after == IF auto_platform = "58" \/
                          (auto_platform = "anjuke" /\ ~slider)
                       THEN loaded ELSE gestured
          IN  IF PlatformSuccess(auto_platform, slider, after)
              THEN /\ success' = TRUE
                   /\ browser_page' =
                        IF has_verification(waited) /\ auto_platform = "lianjia"
                        THEN extra ELSE waited
                   /\ auto_pc' = "returned"
                   /\ verification_success' = "True"
              ELSE /\ success' = FALSE
                   /\ browser_page' = after
                   /\ auto_pc' = "prompt"
                   /\ verification_success' = Pending
    /\ driver' = TRUE
    /\ UNCHANGED <<retries, raised>>
    /\ HvFrame

\* :155-163 raise after the platform's method answered True (the browser is
\* gone when current_url or page_source is read): the except of :250 counts
\* it, success stays True, so the finally of :257 closes nothing, the loop
\* test of :130 fails and :261 returns False
HandlerSuccessRaises ==
    /\ hv_pc = "auto" /\ auto_pc = "loop"
    /\ auto_platform \in { "anjuke", "lianjia" }
    /\ \E gestured \in Pages :
          /\ PlatformSuccess(auto_platform, TRUE, gestured)
          /\ browser_page' = gestured
    /\ success' = TRUE
    /\ raised' = raised + 1
    /\ retries' = CountException(retries)
    /\ driver' = TRUE
    /\ auto_pc' = "returned"
    /\ verification_success' = "False"
    /\ HvFrame

\* :241-249, the operator presses Enter, having solved the challenge in the
\* browser or not; the method returns True
HandlerPromptConfirmed ==
    /\ hv_pc = "auto" /\ auto_pc = "prompt"
    /\ \E left \in Pages : browser_page' = left
    /\ auto_pc' = "returned"
    /\ verification_success' = "True"
    /\ UNCHANGED <<retries, success, raised, driver>>
    /\ HvFrame

\* the platform whose site the url addresses
UrlSite(u) ==
    IF u \in AnjukeUrls THEN "anjuke"
    ELSE IF u \in Urls58 THEN "58"
    ELSE IF u \in BeikeUrls THEN "beike"
    ELSE IF u \in LianjiaUrls THEN "lianjia"
    ELSE "other"

\* multi_platform_housing_scraper.py :218-230: the cookies of the browser,
\* if get_cookies_dict (auto_verification.py :797-811) has any, become the
\* Cookie entry of self.headers
HvAutoSucceeded ==
    /\ hv_pc = "auto" /\ auto_pc = "returned" /\ verification_success = "True"
    /\ hv_pc' = "returned"
    /\ hv_result' = "True"
    /\ auto_pc' = "idle"
    /\ cookie' \in { cookie, UrlSite(url) }
    /\ UNCHANGED <<has_handler, url, attempt, auto_calls, auto_platform,
                   retries, success, raised, driver, browser_page,
                   verification_success>>
    /\ UNCHANGED <<page_count, page, retry_count, verification_handled,
                   total_items, pc, attempts, all_failed, last_failed,
                   skipped, delayed, challenge, prompted, backoff, scenario,
                   accepted>>
    /\ UNCHANGED <<detVars, selVars, reqVars, extVars, guiVars>>

\* :231-233, then the next iteration of :213 or the fall through to :236
HvAutoFailed ==
    /\ hv_pc = "auto" /\ auto_pc = "returned" /\ verification_success = "False"
    /\ attempt' = attempt + 1
    /\ IF MoreAttempts(attempt + 1)
       THEN /\ hv_pc' = "auto"
            /\ CallHandler
       ELSE /\ hv_pc' = "manual_choice"
            /\ auto_pc' = "idle"
            /\ UNCHANGED <<retries, success, raised, auto_calls,
                           verification_success, auto_platform>>
    /\ UNCHANGED <<has_handler, url, hv_result, driver, browser_page>>
    /\ VerOthers

\* :240-244, the operator's answer to "1/2"
HvManualChoice ==
    /\ hv_pc = "manual_choice"
    /\ \E choice \in { "1", "2", "" } :
          IF choice = "2"
          THEN hv_pc' = "returned" /\ hv_result' = "False"
          ELSE hv_pc' = "manual_wait" /\ UNCHANGED hv_result  \* :247-251, :256-260
    /\ UNCHANGED <<has_handler, url, attempt, auto_calls, auto_platform, auto_pc,
                   retries, success, raised, driver, browser_page,
                   verification_success>>
    /\ VerOthers

\* :251-257 / :260-262, the operator presses Enter
HvManualConfirmed ==
    /\ hv_pc = "manual_wait"
    /\ hv_pc' = "returned"
    /\ hv_result' = "True"
    /\ UNCHANGED <<has_handler, url, attempt, auto_calls, auto_platform, auto_pc,
                   retries, success, raised, driver, browser_page,
                   verification_success>>
    /\ VerOthers

VerIdle == /\ has_handler = FALSE
           /\ url = << >>
           /\ hv_pc = "idle"
           /\ attempt = 0
           /\ hv_result = Pending
           /\ auto_calls = 0
           /\ auto_platform = None
           /\ auto_pc = "idle"
           /\ retries = 0
           /\ success = FALSE
           /\ raised = 0
           /\ driver = FALSE
           /\ browser_page = NoPage
           /\ verification_success = Pending

\* handle_verification(url) is called on a scraper built by __init__ (:116-124)
VerInit == /\ has_handler \in BOOLEAN
           /\ url \in HandlerUrls
           /\ hv_pc = "start"
           /\ attempt = 0
           /\ hv_result = Pending
           /\ auto_calls = 0
           /\ auto_platform = None
           /\ auto_pc = "idle"
           /\ retries = 0
           /\ success = FALSE
           /\ raised = 0
           /\ driver = FALSE
           /\ browser_page = NoPage
           /\ verification_success = Pending

NextVerify ==
    \/ HvEnter
    \/ HandlerBrowserFails \/ HandlerGetFails \/ HandlerPlatformRaises
    \/ HandlerPlatformReturns \/ HandlerSuccessRaises
    \/ HandlerPromptConfirmed
    \/ HvAutoSucceeded \/ HvAutoFailed
    \/ HvManualChoice \/ HvManualConfirmed

-----------------------------------------------------------------------------
(***************************************************************************)
(* The GUI's scraping thread, gui_scraper.py: run_multi_platform_scraping  *)
(* (:505-668) and, with one job per (city, platform), run_batch_scraping   *)
(* (:357-503); and what the window lets the user do meanwhile.             *)
(*                                                                         *)
(* run_pc is "platform_top" at the head of the loop over the platforms,    *)
(* "scraping" while a scraper is called (its page loop is the one above),  *)
(* "finished" when the thread has ended.                                   *)
(***************************************************************************)

\* gui_scraper.py :569 (:439), max_retries of the 58 loop
gui_max_retries == 2

\* gui_scraper.py :564-565, house_type_map
ScrapeType58(ht) ==
    IF ht = XINFANG THEN "new" ELSE IF ht = ERSHOUFANG THEN "second" ELSE "rent"

\* the platform lists of SpecRun; scrape_beike is the text of scrape_lianjia
RunPlatformLists ==
    { <<"anjuke">>, <<"58">>, <<"lianjia">>, <<"58", "lianjia">> }

\* the listing type of SpecRun: for 58 it becomes "second", which scrape_58
\* takes down its last branch (:726, :953)
RunHouseTypes == { ERSHOUFANG }

\* a record an earlier run left in the store
PriorRecord == Record("lianjia", ZUFANG, "num", <<1, 1>>, 2010)

\* what the scraper returns: scrape_anjuke the store itself (:700), the
\* others their count (:1044, :1337, :1631)
ReturnValue ==
    IF platform = "anjuke"
    THEN [ kind |-> "list", n |-> Len(house_data) ]
    ELSE [ kind |-> "int", n |-> total_items ]

\* "if result" (gui_scraper.py :583, :609): a list is true when it has an
\* element, an integer when it is not 0
Truthy(v) == v.n # 0

\* the scraper is entered for platform pf: :439-443 / :729-732
CallScraper(pf) ==
    /\ platform' = pf
    /\ house_type' = IF pf = "58" THEN ScrapeType58(gui_house_type)
                     ELSE gui_house_type
    /\ page' = 1
    /\ retry_count' = 0
    /\ verification_handled' = FALSE
    /\ total_items' = 0
    /\ pc' = "page_top"
    /\ attempts' = 0
    /\ all_failed' = TRUE
    /\ last_failed' = FALSE
    /\ skipped' = FALSE
    /\ delayed' = FALSE
    /\ challenge' = "none"
    /\ prompted' = FALSE
    /\ UNCHANGED cookie
    /\ backoff' = 0
    /\ scenario' = TRUE
    /\ accepted' = 0

RunOthers == UNCHANGED <<detVars, selVars, extVars, verVars>>

\* gui_scraper.py :546-549 (:405-418), the head of the loop over the
\* platforms: the stop event is tested here
RunNextPlatform ==
    /\ run_pc = "platform_top"
    /\ jobs # << >> /\ ~stop_event
    /\ CallScraper(Head(jobs))
    /\ jobs' = Tail(jobs)
    /\ retry' = 0
    /\ run_pc' = "scraping"
    /\ UNCHANGED <<bedroom_num, livingroom_num, build_year, house_data,
                   page_count, gui_house_type, stop_event, hv_override>>
    /\ RunOthers

\* gui_scraper.py :546-549 with the event set or the list exhausted, then
\* :643-662: the finally clause restores handle_verification
RunFinish ==
    /\ run_pc = "platform_top"
    /\ jobs = << >> \/ stop_event
    /\ run_pc' = "finished"
    /\ hv_override' = FALSE
    /\ UNCHANGED <<reqVars, scrVars, jobs, gui_house_type, stop_event, retry>>
    /\ RunOthers

\* RunRaises with the method put back after the try statement and not in
\* its finally clause
RunRaisesNoFinally ==
    /\ run_pc = "platform_top"
    /\ jobs # << >> /\ ~stop_event
    /\ run_pc' = "finished"
    /\ UNCHANGED <<reqVars, scrVars, jobs, gui_house_type, stop_event, retry,
                   hv_override>>
    /\ RunOthers

\* gui_scraper.py :544-668 (:400-503), a statement of the loop body outside
\* the try statements around the scraper calls raises: the finally clause
\* of :657-660 (:500-503) restores handle_verification, the handler of :662
\* reports the error and the thread ends
RunRaises ==
    /\ run_pc = "platform_top"
    /\ jobs # << >> /\ ~stop_event
    /\ run_pc' = "finished"
    /\ hv_override' = FALSE
    /\ UNCHANGED <<reqVars, scrVars, jobs, gui_house_type, stop_event, retry>>
    /\ RunOthers

\* gui_scraper.py :580-598 (:445-452), scrape_58 has returned: a false
\* result is followed by the second attempt
Run58Returned ==
    /\ run_pc = "scraping" /\ pc = "done" /\ platform = "58"
    /\ IF ~Truthy(ReturnValue) /\ retry + 1 < gui_max_retries
       THEN /\ retry' = retry + 1
            /\ CallScraper("58")
            /\ UNCHANGED run_pc
       ELSE /\ run_pc' = "platform_top"
            /\ pc' = "idle"
            /\ UNCHANGED <<retry, platform, house_type, page, retry_count,
                           verification_handled, total_items, attempts,
                           all_failed, last_failed, skipped, delayed,
                           challenge, prompted, backoff, cookie,
                           scenario, accepted>>
    /\ UNCHANGED <<bedroom_num, livingroom_num, build_year, house_data,
                   page_count, jobs, gui_house_type, stop_event, hv_override>>
    /\ RunOthers

\* gui_scraper.py :605-641 (:454-484), another scraper has returned
RunScraperReturned ==
    /\ run_pc = "scraping" /\ pc = "done" /\ platform # "58"
    /\ run_pc' = "platform_top"
    /\ pc' = "idle"
    /\ UNCHANGED <<reqVars, page_count, page, retry_count,
                   verification_handled, total_items, attempts, all_failed,
                   last_failed, skipped, delayed, challenge, prompted, cookie,
                   backoff, scenario, accepted, jobs,
                   gui_house_type, stop_event, hv_override, retry>>
    /\ RunOthers

\* gui_scraper.py :698-704, the stop button, enabled while the thread runs
\* and disabled once pressed
StopScraping ==
    /\ run_pc \in { "platform_top", "scraping" }
    /\ ~stop_event
    /\ stop_event' = TRUE
    /\ UNCHANGED <<reqVars, scrVars, run_pc, jobs, gui_house_type, hv_override,
                   retry>>
    /\ RunOthers

\* gui_scraper.py :732-742, the clear button, which stays enabled while the
\* thread runs: with records in the store and the question answered yes,
\* scraper.clear_data (:1736-1739) puts a new empty list in house_data
ClearData ==
    /\ run_pc # "idle"
    /\ house_data # << >>
    /\ house_data' = << >>
    /\ UNCHANGED <<platform, house_type, bedroom_num, livingroom_num,
                   build_year, scrVars, guiVars>>
    /\ RunOthers

GuiIdle == /\ run_pc = "idle"
           /\ jobs = << >>
           /\ gui_house_type = None
           /\ stop_event = FALSE
           /\ hv_override = FALSE
           /\ retry = 0

\* the pages a run started from the window asks for
MaxRunPages == 2

\* start_scraping has started the thread (gui_scraper.py :311-337) and the
\* thread has installed the skip handler if the box is ticked (:516-542)
RunInit == /\ run_pc = "platform_top"
           /\ jobs \in RunPlatformLists
           /\ gui_house_type \in RunHouseTypes
           /\ stop_event = FALSE
           /\ hv_override \in BOOLEAN
           /\ retry = 0
           /\ platform = None
           /\ house_type = None
           /\ bedroom_num = 0
           /\ livingroom_num = 0
           /\ build_year = 0
           /\ house_data \in { << >>, << PriorRecord >> }
           /\ page_count \in 1..MaxRunPages
           /\ page = 1
           /\ retry_count = 0
           /\ verification_handled = FALSE
           /\ total_items = 0
           /\ pc = "idle"
           /\ attempts = 0
           /\ all_failed = TRUE
           /\ last_failed = FALSE
           /\ skipped = FALSE
           /\ delayed = FALSE
           /\ challenge = "none"
           /\ prompted = FALSE
           /\ cookie = None
           /\ backoff = 0
           /\ scenario = TRUE
           /\ accepted = 0

NextRun ==
    \/ RunNextPlatform \/ RunFinish \/ Run58Returned \/ RunScraperReturned
    \/ StopScraping \/ ClearData \/ RunRaises
    \/ NextScrape

-----------------------------------------------------------------------------
InitDetect ==
    DetInit /\ SelIdle /\ ReqIdle /\ ExtIdle /\ ScrIdle /\ VerIdle /\ GuiIdle
NextDetect ==
    /\ CheckVerification
    /\ UNCHANGED <<selVars, reqVars, extVars, scrVars, verVars, guiVars>>
SpecDetect == InitDetect /\ [][NextDetect]_vars

InitSelect ==
    SelInit /\ DetIdle /\ ReqIdle /\ ExtIdle /\ ScrIdle /\ VerIdle /\ GuiIdle
NextSelect ==
    /\ DetectSelector
    /\ UNCHANGED <<detVars, reqVars, extVars, scrVars, verVars, guiVars>>
SpecSelect == InitSelect /\ [][NextSelect]_vars

InitExtract == ExtInit /\ DetIdle /\ SelIdle /\ ScrIdle /\ VerIdle /\ GuiIdle
NextExtract ==
    /\ ProcessItem
    /\ UNCHANGED <<detVars, selVars, scrVars, verVars, guiVars>>
SpecExtract == InitExtract /\ [][NextExtract]_vars

InitScrape == ScrInit /\ DetIdle /\ SelIdle /\ ExtIdle /\ VerIdle /\ GuiIdle
SpecScrape == InitScrape /\ [][NextScrape]_vars

InitVerify ==
    VerInit /\ DetIdle /\ SelIdle /\ ReqIdle /\ ExtIdle /\ ScrIdle /\ GuiIdle
SpecVerify == InitVerify /\ [][NextVerify]_vars

InitRun == RunInit /\ DetIdle /\ SelIdle /\ ExtIdle /\ VerIdle
SpecRun == InitRun /\ [][NextRun]_vars

-----------------------------------------------------------------------------
(***************************************************************************)
(* Properties of check_verification, under SpecDetect.                     *)
(***************************************************************************)

KeywordsIn(text) == { k \in verification_keywords : Occurs(k, text) }

ExplicitSignal(text) ==
    \E e \in verification_elements \cup verification_urls : Occurs(e, text)

\* C1: check_verification returns false for a text that contains exactly one
\* keyword of verification_keywords and no element or URL signal, and returns
\* true once two distinct keywords are present.
C1_TwoKeywordThreshold ==
    verdict # Pending =>
        /\ ( Cardinality(KeywordsIn(response_text)) = 1
             /\ ~ExplicitSignal(response_text) ) => verdict = "False"
        /\ Cardinality(KeywordsIn(response_text)) >= 2 => verdict = "True"

-----------------------------------------------------------------------------
(***************************************************************************)
(* Properties of detect_house_item_selector, under SpecSelect.             *)
(***************************************************************************)

Profile == ProfileSelectors(sel_site, sel_house_type)
ProfileCount(i) == SelectCount(soup, Profile[i])
ProfileIdx == 1..Len(Profile)

NothingMatches ==
    /\ \A i \in ProfileIdx : ProfileCount(i) = 0
    /\ \A i \in 1..Len(general_selectors) :
           SelectCount(soup, general_selectors[i]) = 0

\* C7: when no profile candidate and no generic candidate matches a node of
\* the document, resolution yields an empty result, so the page has zero
\* listing items: no node is selected for extraction.
C7_EmptyWhenNothingMatches ==
    (sel_result # Pending /\ NothingMatches) => house_items_n = 0

Confident == { i \in ProfileIdx : ProfileCount(i) >= 5 }
Matching == { i \in ProfileIdx : ProfileCount(i) >= 1 }
\* the candidates with the highest match count
Highest == { i \in Matching : \A j \in Matching : ProfileCount(j) <= ProfileCount(i) }
Least(S) == CHOOSE i \in S : \A j \in S : i <= j

-----------------------------------------------------------------------------
(***************************************************************************)
(* Properties of the item loops, under SpecExtract.                        *)
(***************************************************************************)

LayoutFilterSet == bedroom_num # 0 \/ livingroom_num # 0

\* the layout the path (platform, house_type) parses from the node
ParsedLayout ==
    IF platform = "anjuke" THEN ext_item.layout                     \* :599
    ELSE IF platform = "58" /\ house_type = ERSHOUFANG
    THEN ext_item.layout                                            \* :907-920
    ELSE IF house_type = ZUFANG /\ platform # "58"
    THEN ext_item.layout                                            \* :1273
    ELSE TagLayout(ext_item)

LayoutDiffers ==
    \/ bedroom_num # 0 /\ ParsedLayout[1] # bedroom_num
    \/ livingroom_num # 0 /\ ParsedLayout[2] # livingroom_num

\* C4: on every scraper path, when a bedroom or living-room filter is set
\* and the layout parsed from the node differs from it in a filtered count,
\* no record is appended for the node; when the parsed layout matches (and
\* nothing else rejects the node), a record is appended.
C4_LayoutFilter ==
    (ext_done /\ LayoutFilterSet /\ ParsedLayout # << >>) =>
        /\ LayoutDiffers => house_data = << >>
        /\ ( ~LayoutDiffers /\ ~ext_item.raises
             /\ ~YearRejects(ext_item.year, build_year) ) => Len(house_data) = 1

\* an exception is raised while a field of the node is extracted: by the
\* node, or by the read of the unassigned year at :940
FieldRaises ==
    \/ ext_item.raises
    \/ platform = "58" /\ house_type = ERSHOUFANG

NoFilterSet == bedroom_num = 0 /\ livingroom_num = 0 /\ build_year = 0

\* C5: on every scraper path an exception raised while one field of a node
\* is extracted does not discard the node: a record for it is still
\* appended to house_data.
C5_FieldFailureKeepsRecord ==
    (ext_done /\ FieldRaises /\ NoFilterSet) => Len(house_data) = 1

\* C6: on every scraper path a node without an element for any price
\* sub-selector and without numeric text yields an appended record whose
\* price is the unknown marker, never an empty value and never an exception.
C6_MissingPriceIsUnknown ==
    ( ext_done /\ NoFilterSet /\ ~ext_item.raises /\ ext_item.price = None
      /\ ext_item.layout = << >> /\ ext_item.year = 0 ) =>
        /\ Len(house_data) = 1
        /\ house_data[1].price = UNKNOWN

-----------------------------------------------------------------------------
(***************************************************************************)
(* Properties of the page loops, under SpecScrape.                         *)
(***************************************************************************)

\* C2: in scrape_anjuke, when every fetch of a page fails with a network
\* error the page is fetched exactly 3 times: never more, and the page is
\* left, for the next page, only after the third.
C2_AnjukeBoundedRetry ==
    (platform = "anjuke" /\ all_failed) =>
        /\ attempts <= 3
        /\ pc = "fetch" => attempts < 3
        /\ pc = "page_end" => attempts = 3
        /\ pc \in { "fetch", "page_end", "page_top", "done" }

\* C2 witness: scrape_anjuke leaves a page, not the last one, after three
\* fetches that all failed.
C2_Witness ==
    /\ platform = "anjuke" /\ pc = "page_end" /\ all_failed /\ attempts = 3
    /\ page < page_count

\* C3: in every platform scraper a network error on a page's fetch makes the
\* scraper fetch the same page again until the bounded attempt count (3) is
\* reached: a page is left after a failed fetch only then.
C3_NetworkErrorRetried ==
    (pc = "page_end" /\ last_failed) => attempts >= 3

-----------------------------------------------------------------------------
(***************************************************************************)
(* Properties of challenge handling, under SpecVerify.                     *)
(***************************************************************************)

\* the steps a call of scraper.handle_verification can still take, at most
StepsLeft ==
    IF hv_pc = "returned" THEN 0
    ELSE IF hv_pc = "manual_wait" THEN 1
    ELSE IF hv_pc = "manual_choice" THEN 2
    ELSE IF hv_pc = "start" THEN 4 + 4 * (max_attempts + 1)
    ELSE 4 + 4 * (max_attempts - attempt)
           - (IF auto_pc = "loop" THEN retries
              ELSE IF auto_pc = "prompt" THEN 2 ELSE 3)

\* at most 3 calls of the handler; an operator prompt only with no handler or
\* after the automated attempts before it have failed; a result only at the
\* end, True or False
C9_Outcomes ==
    /\ auto_calls <= 3
    /\ hv_pc \in { "manual_choice", "manual_wait" } =>
           \/ ~has_handler /\ auto_calls = 0
           \/ has_handler /\ auto_calls = 3 /\ attempt = 3
                          /\ verification_success = "False"
    /\ hv_pc = "auto" => has_handler /\ attempt = auto_calls - 1
    /\ auto_pc = "prompt" => ~success
    /\ hv_pc = "returned" <=> hv_result \in { "True", "False" }
    /\ hv_pc # "returned" => hv_result = Pending

\* C9: scraper.handle_verification calls the automated handler at most 3
\* times, comes to the manual prompt only when there is no handler or after
\* every automated attempt has failed, and every call ends, returning True
\* (Resolved) or False (Skipped): each step brings the return nearer.
C9_BoundedAttemptsThenManual ==
    /\ []C9_Outcomes
    /\ [][StepsLeft' < StepsLeft]_vars

\* C9 witness: a call that made three automated attempts, all failed, came to
\* the manual prompt and returned False.
C9_Witness ==
    /\ has_handler /\ auto_calls = 3 /\ attempt = 3
    /\ hv_pc = "returned" /\ hv_result = "False"

\* C10: AutoVerificationHandler.handle_verification returns True only when
\* the page its browser is left on is no longer a verification page.
C10_TrueOnlyWhenCleared ==
    (auto_pc = "returned" /\ verification_success = "True") =>
        ~_is_still_verification_page(browser_page)

-----------------------------------------------------------------------------
(***************************************************************************)
(* Properties of the page loops around a skipped challenge, under          *)
(* SpecScrape.                                                             *)
(***************************************************************************)

\* C12: in every platform scraper, when handle_verification returns False for
\* a page before the last one, the scraper leaves that page and goes on with
\* the next: the request does not end there.
C12_SkipGoesToNextPage ==
    (skipped /\ page < page_count) => pc # "done"

\* C13: after handle_verification returned False for a page, the page is not
\* fetched again and no record from it is appended to house_data, whether the
\* call followed a keyword verdict or a short page.
C13_SkippedPageUntouched ==
    [][(skipped /\ skipped') =>
           (attempts' = attempts /\ house_data' = house_data)]_vars

-----------------------------------------------------------------------------
(***************************************************************************)
(* Properties of a run started from the window, under SpecRun.             *)
(***************************************************************************)

\* C14: once the stop event is set while a scraper is in its page loop, no
\* further page of that scrape is started: the event is seen at the head of
\* the next page iteration and the run stops there.
C14_StopSeenAtPageTop ==
    [][~(stop_event /\ pc = "page_top" /\ page > 1 /\ pc' = "fetch")]_vars

-----------------------------------------------------------------------------
(***************************************************************************)
(* More properties of the page loops, under SpecScrape.                    *)
(***************************************************************************)

\* C15: in every platform scraper the randomized delay between pages has run
\* whenever a page has been left for the next one, whatever ended the page:
\* records, no items, an unresolved challenge, a status other than 200, a
\* network error.
C15_DelayBetweenPages == pc = "page_end" => delayed

C17_EveryChallengeHandled ==
    pc \in { "page_end", "done" } => challenge # "reported"

-----------------------------------------------------------------------------
(***************************************************************************)
(* Properties of a run started from the window, under SpecRun.             *)
(***************************************************************************)

\* C18: a scraper none of whose pages yielded a record returns, without
\* raising, a value that its caller reads as a failure ("if result" is
\* false), whatever house_data held before the call.
C18_AllPagesFailedIsFalsy ==
    (run_pc = "scraping" /\ pc = "done" /\ total_items = 0)
        => ~Truthy(ReturnValue)

\* house_data after the step is house_data before it with records appended
StoreAppended ==
    /\ Len(house_data') >= Len(house_data)
    /\ SubSeq(house_data', 1, Len(house_data)) = house_data

\* C19: while the scraping thread is in a scraper, house_data is changed by
\* that thread only, that is by appending records: no action of the window
\* that is available during a run replaces or modifies the store.
C19_StoreOnlyAppendedDuringRun ==
    [][(run_pc = "scraping") => StoreAppended]_vars

\* the steps of the window's buttons, which are not steps of the thread
ButtonStep ==
    \/ stop_event' # stop_event
    \/ Len(house_data') < Len(house_data)

\* the steps a scraper has left before it returns, at most
ScraperSteps ==
    LET K == 3 * max_retries + 2
        after == (page_count - page) * K + 1
    IN  IF pc = "page_top" THEN (page_count + 1 - page) * K + 1
        ELSE IF pc = "page_end" THEN after + 1
        ELSE IF pc = "fetch" THEN after + 1 + 3 * (max_retries - retry_count)
        ELSE IF pc \in { "hv_kw", "hv_short" }
        THEN after + 3 * (max_retries - retry_count)
        ELSE IF pc \in { "refetch_kw", "refetch_short" }
        THEN after + 3 * (max_retries - retry_count) - 1
        ELSE 0

\* the steps the thread has left before it ends, at most
RunStepsLeft ==
    LET M == page_count * (3 * max_retries + 2) + 2
        J == gui_max_retries * M + 1
    IN  IF run_pc = "platform_top" THEN 1 + Len(jobs) * J
        ELSE IF run_pc = "scraping"
        THEN 2 + Len(jobs) * J + (gui_max_retries - retry - 1) * M
               + ScraperSteps
        ELSE 0

\* C20: with skip_verification_handler installed as handle_verification, a
\* run never waits for the operator's input, and every step of the thread
\* brings its end nearer, whichever pages answer with a challenge or a short
\* page: the run terminates.
C20_UnattendedRunTerminates ==
    /\ [](hv_override => ~prompted)
    /\ [][(hv_override /\ ~ButtonStep) => RunStepsLeft' < RunStepsLeft]_vars

\* the last scraper of an unattended run has returned after a challenge
\* that the skip handler answered
C20_Witness ==
    /\ hv_override /\ run_pc = "platform_top" /\ jobs = << >>
    /\ skipped /\ ~prompted

-----------------------------------------------------------------------------
(***************************************************************************)
(* More properties of check_verification, under SpecDetect.                *)
(***************************************************************************)

\* C21: check_verification answers true through the short-content test (a
\* short text that names a platform domain and lacks more than half of the
\* normal-page markers) only if an explicit challenge term (a keyword, an
\* element or a URL of the three lists) occurs in the text as well.
C21_ShortContentNeedsTerm ==
    (verdict = "True" /\ ShortContentChallenge(response_text)) =>
        (KeywordsIn(response_text) # {} \/ ExplicitSignal(response_text))

-----------------------------------------------------------------------------
(***************************************************************************)
(* More properties of the item loops, under SpecExtract.                   *)
(***************************************************************************)

\* C22: on every scraper path, when a bedroom or living-room filter is set
\* and no layout can be parsed from the node, or a build-year filter is set
\* and no year can be parsed from it, the node is rejected: no record is
\* appended.
C22_UnparsedFilteredValueRejects ==
    ( ext_done /\ ( \/ LayoutFilterSet /\ ParsedLayout = << >>
                    \/ build_year # 0 /\ ext_item.year = 0 ) ) =>
        house_data = << >>

-----------------------------------------------------------------------------
(***************************************************************************)
(* Properties of the waits of scrape_anjuke, under SpecScrape.             *)
(***************************************************************************)

\* a step of scrape_anjuke that ends in a new attempt at the same page
AnjukeRetryStep ==
    /\ platform = "anjuke"
    /\ pc' = "fetch" /\ retry_count' = retry_count + 1

\* the wait before the new attempt: there is one, and after an earlier retry
\* of the page its multiplier is one more than that of the wait before
BackoffGrows ==
    /\ backoff' > 0
    /\ retry_count > 0 => backoff' = backoff + 1

\* C23: in scrape_anjuke every retry of a page, whether caused by a network
\* error, a status other than 200, no item found or a challenge that is
\* still there, comes after a wait whose multiplier is one more than that of
\* the wait before the previous retry of the page.
C23_RetryBackoffGrows == [][AnjukeRetryStep => BackoffGrows]_vars

-----------------------------------------------------------------------------
(***************************************************************************)
(* More properties of challenge handling, under SpecVerify.                *)
(***************************************************************************)

\* the thread stands at an input() and waits for the operator
Suspended ==
    \/ hv_pc = "auto" /\ auto_pc = "prompt"        \* auto_verification.py :241
    \/ hv_pc = "manual_choice"                     \* :240
    \/ hv_pc = "manual_wait"                       \* :251, :260

\* C24: while a challenge is handled the thread waits for the operator at
\* one point only, the manual prompt of handle_verification at which the
\* operator either chooses to skip or solves the challenge and confirms
\* (the question of :240 and, after the answer "solve", the Enter of :251):
\* it never waits at another input, from which no skip can follow.
C24_OneSuspensionWithSkip ==
    Suspended => hv_pc \in { "manual_choice", "manual_wait" }

-----------------------------------------------------------------------------
(***************************************************************************)
(* More properties of detect_house_item_selector, under SpecSelect.        *)
(***************************************************************************)

BaseUrl58(ht) ==
    IF ht = XINFANG THEN "loupan/all"
    ELSE IF ht = ERSHOUFANG THEN "ershoufang"
    ELSE "zufang"

\* :757, :840, :953, the extraction branch scrape_58 runs on a page
Branch58(ht) ==
    IF ht = XINFANG THEN "new" ELSE IF ht = ERSHOUFANG THEN "used" ELSE "rent"

\* C26: while the window's run has scrape_58 at work for the listing type
\* chosen in the window, the addresses scrape_58 fetches and the extraction
\* branch it runs are those of that listing type.
C26_Scrape58FollowsListingType ==
    (run_pc = "scraping" /\ platform = "58") =>
        /\ BaseUrl58(house_type) = BaseUrl58(gui_house_type)
        /\ Branch58(house_type) = Branch58(gui_house_type)

(***************************************************************************)
(* The Cookie header, under SpecRun                                        *)
(***************************************************************************)

\* a requests.get of the scraper is sent with self.headers
SendsRequest == attempts' = attempts + 1

\* the Cookie entry the request carries, if any, was obtained on the
\* platform the request goes to
CookieOfPlatform == cookie \in { None, platform }

\* C27: the cookies obtained by resolving a challenge on one platform are
\* sent only to that platform: no request the same scraper object sends to
\* another platform carries them.
C27_CookieStaysOnPlatform == [][SendsRequest => CookieOfPlatform]_vars

(***************************************************************************)
(* One parse per page and the second scrape_58, under SpecRun              *)
(***************************************************************************)

\* a step of the scraper appends records to the store
AppendsRecords == Len(house_data') > Len(house_data)

\* the page loop goes from its page to the next one, or the call is over
PageIsLeft ==
    \/ pc' = "page_top" /\ page' = page + 1
    \/ pc' = "idle"

\* the page counter moves forward only, but for a new call of a scraper
PageForward == page' >= page \/ (pc = "done" /\ pc' = "page_top" /\ page' = 1)
                             \/ pc = "idle" \/ pc' = "idle"

\* the window calls scrape_58 a second time
SecondScrape58 == platform = "58" /\ retry' = retry + 1

C29_OverrideRestored == run_pc = "finished" => ~hv_override

\* a run that ended by an exception before its last platform, after a page
\* on which the installed skip handler had answered without a prompt
C29_Witness ==
    /\ run_pc = "finished" /\ jobs # << >> /\ ~stop_event
    /\ skipped /\ ~prompted /\ ~hv_override

(***************************************************************************)
(* The platform the handler infers, under SpecVerify                       *)
(***************************************************************************)

\* the automatic handler has been called with url and has chosen its method
HandlerDispatched == hv_pc = "auto" /\ auto_pc # "idle"

\* C30: called with a url and no platform, the automatic handler sends every
\* address that scrape_beike builds to the beike method and every address
\* that scrape_lianjia builds to the lianjia method, whatever the city code
\* and the page.
C30_UrlDispatchedToItsPlatform ==
    HandlerDispatched =>
        /\ url \in BeikeUrls => auto_platform = "beike"
        /\ url \in LianjiaUrls => auto_platform = "lianjia"
=============================================================================
